---- MODULE Spec2Model ----
(***************************************************************************)
(* The result-processing pipeline of src/pages/Index.tsx: the query client *)
(* (analyzeHeadline), the response normalizer (articles.map), clearResults *)
(* and the React state they act on.                                        *)
(*                                                                         *)
(* Conventions.  A JavaScript value is a record tagged by its type in the  *)
(* field t; a JavaScript string is a sequence of one-character strings, so *)
(* that trim, concatenation and formatting are computed on its characters. *)
(* Instants are counted in days since 1970-01-01 (TLC integers are 32 bit).*)
(* A number is an integer count of ten-thousandths, so that toFixed(3) has *)
(* a digit to round.                                                       *)
(***************************************************************************)
EXTENDS Integers, Sequences, FiniteSets, TLC

VARIABLES
    headline,    \* useState("")                     line 36
    results,     \* useState<AnalysisResult[]>([])   line 37
    sortBy,      \* useState("time")                 line 38
    filterBy,    \* useState("all")                  line 39
    isLoading,   \* useState(false)                  line 40
    errorMsg,    \* useState<string | null>(null)    line 41
    summary,     \* useState<{...} | null>(null)     line 42
    inFlight,    \* the suspended analyzeHeadline calls: how many wait at each await
    lastExit,    \* history: how the most recent handler run that ended did end
    lastResponse,\* history: the payload of the most recent successful query and
                 \* the instants new Date() read while it was processed
    download,    \* the text of the file the last export handed to the browser
    noSubmitSinceClear \* history: clearResults has run and no query has been
                 \* submitted since

vars == <<headline, results, sortBy, filterBy, isLoading, errorMsg, summary,
          inFlight, lastExit, lastResponse, download, noSubmitSinceClear>>

(***************************************************************************)
(* Bounds of the model.                                                    *)
(***************************************************************************)
MaxArticles == 2     \* articles in one response
MaxInFlight == 2     \* analyzeHeadline calls suspended at the same time
MaxClock == 1        \* the processing clock reads 0..MaxClock

(***************************************************************************)
(* JavaScript values.                                                      *)
(***************************************************************************)
Undefined == [t |-> "undefined"]
Null == [t |-> "null"]
Str(s) == [t |-> "string", v |-> s]
Num(n) == [t |-> "number", v |-> n]
Bool(b) == [t |-> "boolean", v |-> b]
JsInt(n) == Num(n * 10000)

\* ToBoolean: undefined, null, "", 0 and false are falsy; objects are truthy.
Truthy(x) ==
    CASE x.t = "undefined" -> FALSE
      [] x.t = "null" -> FALSE
      [] x.t = "string" -> x.v # <<>>
      [] x.t = "number" -> x.v # 0
      [] x.t = "boolean" -> x.v
      [] OTHER -> TRUE

\* x || y
Or(x, y) == IF Truthy(x) THEN x ELSE y

\* x ?? y
Coalesce(x, y) == IF x.t \in {"undefined", "null"} THEN y ELSE x

IsWhitespace(c) == c \in {" ", "\t", "\n"}

RECURSIVE TrimStart(_)
TrimStart(s) ==
    IF s # <<>> /\ IsWhitespace(Head(s)) THEN TrimStart(Tail(s)) ELSE s

RECURSIVE TrimEnd(_)
TrimEnd(s) ==
    IF s # <<>> /\ IsWhitespace(s[Len(s)])
    THEN TrimEnd(SubSeq(s, 1, Len(s) - 1))
    ELSE s

\* A trim that removes nothing.
TrimNothing(s) == s

\* String.prototype.trim
Trim(s) == TrimEnd(TrimStart(s))

(***************************************************************************)
(* Dates.  A Date is valid with a time value, or invalid (its time value   *)
(* is NaN).  The service's published strings are taken from ISO calendar   *)
(* dates and from text that is no date; Date's parser is modelled on them: *)
(* YYYY-MM-DD with a real month and day parses, anything else does not.    *)
(***************************************************************************)
DateAt(n) == [t |-> "date", valid |-> TRUE, time |-> n]
InvalidDate == [t |-> "date", valid |-> FALSE, time |-> 0]

DigitChars == <<"0", "1", "2", "3", "4", "5", "6", "7", "8", "9">>
IsDigit(c) == \E d \in 1..10 : DigitChars[d] = c
DigitVal(c) == (CHOOSE d \in 1..10 : DigitChars[d] = c) - 1

RECURSIVE ParseNat(_)
ParseNat(s) ==
    IF s = <<>> THEN 0
    ELSE 10 * ParseNat(SubSeq(s, 1, Len(s) - 1)) + DigitVal(s[Len(s)])

IsLeap(y) == (y % 4 = 0 /\ y % 100 # 0) \/ y % 400 = 0

DaysInMonth(y, m) ==
    IF m = 2 THEN (IF IsLeap(y) THEN 29 ELSE 28)
    ELSE IF m \in {4, 6, 9, 11} THEN 30 ELSE 31

\* Days from 1970-01-01 to y-m-d of the proleptic Gregorian calendar.
DaysFromCivil(y, m, d) ==
    LET yy == IF m <= 2 THEN y - 1 ELSE y
        era == yy \div 400
        yoe == yy - era * 400
        mp == IF m > 2 THEN m - 3 ELSE m + 9
        doy == (153 * mp + 2) \div 5 + d - 1
        doe == yoe * 365 + yoe \div 4 - yoe \div 100 + doy
    IN  era * 146097 + doe - 719468

\* Date.parse on a string
DateParse(s) ==
    IF /\ Len(s) = 10
       /\ s[5] = "-"
       /\ s[8] = "-"
       /\ \A i \in {1, 2, 3, 4, 6, 7, 9, 10} : IsDigit(s[i])
    THEN LET y == ParseNat(SubSeq(s, 1, 4))
             m == ParseNat(SubSeq(s, 6, 7))
             d == ParseNat(SubSeq(s, 9, 10))
         IN  IF m \in 1..12 /\ d \in 1..DaysInMonth(y, m)
             THEN DateAt(DaysFromCivil(y, m, d))
             ELSE InvalidDate
    ELSE InvalidDate

\* new Date(value) for the string a published field holds
NewDate(x) == CASE x.t = "string" -> DateParse(x.v)

(***************************************************************************)
(* Number formatting and String().                                         *)
(***************************************************************************)
RECURSIVE Digits(_)
Digits(n) ==
    IF n < 10 THEN <<DigitChars[n + 1]>>
    ELSE Digits(n \div 10) \o <<DigitChars[(n % 10) + 1]>>

\* Number.prototype.toFixed(3): n is in ten-thousandths; a tie rounds to the
\* larger magnitude, and a negative number keeps its sign.
ToFixed3(n) ==
    LET mag == IF n < 0 THEN 0 - n ELSE n
        thousandths == (mag + 5) \div 10
        frac == thousandths % 1000
    IN  (IF n < 0 THEN <<"-">> ELSE <<>>)
        \o Digits(thousandths \div 1000) \o <<".">>
        \o <<DigitChars[(frac \div 100) + 1],
             DigitChars[((frac \div 10) % 10) + 1],
             DigitChars[(frac % 10) + 1]>>

\* String(value) for a string or a boolean
JsString(x) ==
    CASE x.t = "string" -> x.v
      [] x.t = "boolean" ->
            IF x.v THEN <<"t", "r", "u", "e">> ELSE <<"f", "a", "l", "s", "e">>

POSITIVE == <<"p", "o", "s", "i", "t", "i", "v", "e">>
NEGATIVE == <<"n", "e", "g", "a", "t", "i", "v", "e">>
NEUTRAL == <<"n", "e", "u", "t", "r", "a", "l">>
PolarityPrefix ==
    <<"P", "o", "l", "a", "r", "i", "t", "y", " ",
      "s", "c", "o", "r", "e", ":", " ">>

(***************************************************************************)
(* The Response Normalizer: the callback of articles.map, lines 74-93.     *)
(* now is what new Date() reads when the article is processed.             *)
(***************************************************************************)
NormSentiment(a) == Or(a.sentiment, Str(NEUTRAL))

NormTimestamp(a, now) ==
    IF Truthy(a.published) THEN NewDate(a.published) ELSE DateAt(now)

\* An explanation that converts the polarity without the ?? "" of line 83.
NormExplanationNoDefault(a) ==
    Or(a.explanation,
       Str(PolarityPrefix \o
           (CASE a.polarity.t = "number" -> ToFixed3(a.polarity.v)
              [] a.polarity.t = "undefined" ->
                    <<"u", "n", "d", "e", "f", "i", "n", "e", "d">>
              [] a.polarity.t = "null" -> <<"n", "u", "l", "l">>
              [] OTHER -> JsString(a.polarity))))

NormExplanation(a) ==
    Or(a.explanation,
       Str(PolarityPrefix \o
           (IF a.polarity.t = "number"
            THEN ToFixed3(a.polarity.v)
            ELSE JsString(Coalesce(a.polarity, Str(<<>>))))))

NormalizeArticle(a, now) ==
    [headline |-> a.title,
     sentiment |-> NormSentiment(a),
     timestamp |-> NormTimestamp(a, now),
     explanation |-> NormExplanation(a),
     link |-> a.link]

\* articles.map(...): article i is processed at instant nows[i]
MapArticles(items, nows) ==
    [i \in 1..Len(items) |-> NormalizeArticle(items[i], nows[i])]

(***************************************************************************)
(* What the service may answer.  A payload is null or an object with the   *)
(* fields articles and summary; articles is absent, an array, or a value   *)
(* that is no array; an item of the array is null or an article object.    *)
(***************************************************************************)
Array(items) == [t |-> "array", items |-> items]
Data(articles, sum) == [t |-> "object", articles |-> articles, summary |-> sum]
Article(title, sentiment, published, polarity, explanation, link) ==
    [t |-> "object", title |-> title, sentiment |-> sentiment,
     published |-> published, polarity |-> polarity,
     explanation |-> explanation, link |-> link]
Counts(positive, negative, neutral) ==
    [t |-> "object", positive |-> positive, negative |-> negative,
     neutral |-> neutral]

SeqsUpTo(S, n) == UNION {[1..k -> S] : k \in 0..n}

\* A complete article, its published date parseable, no explanation.
ArticleUp ==
    Article(Str(<<"u", "p">>), Str(POSITIVE),
            Str(<<"1", "9", "7", "0", "-", "0", "1", "-", "0", "2">>),
            Num(5000), Undefined, Str(<<"h", "/", "u">>))
\* An article without published, polarity and link, with an explanation.
ArticleDown ==
    Article(Str(<<"d", "n">>), Str(NEGATIVE), Undefined, Undefined,
            Str(<<"w", "h", "y">>), Undefined)
\* An article without title, with an unexpected sentiment label, a published
\* text that is no date, a polarity that is no number, an empty explanation.
ArticleOdd ==
    Article(Undefined, Str(<<"b", "u", "l", "l">>), Str(<<"s", "o", "o", "n">>),
            Str(<<"h", "i">>), Str(<<>>), Undefined)

\* The articles of the responses of every length up to MaxArticles.
ServiceArticles == {ArticleUp, ArticleOdd}

SummaryPayloads ==
    {Undefined, Null,
     Counts(Undefined, Undefined, Undefined),
     Counts(JsInt(2), Undefined, JsInt(1))}

\* Payloads the processing throws on, payloads without articles, responses of
\* every length, responses whose articles read the clock, responses with a
\* summary.
Payloads ==
    {Null, Data(Str(<<"x">>), Undefined), Data(Array(<<Null>>), Undefined),
     Data(Array(<<ArticleUp, Null>>), Undefined)}
    \cup {Data(Undefined, Undefined)}
    \cup {Data(Array(<<ArticleDown>>), Undefined),
          Data(Array(<<ArticleDown, ArticleDown>>), Undefined),
          Data(Array(<<ArticleDown, ArticleUp>>), Undefined)}
    \cup {Data(Array(l), Undefined) : l \in SeqsUpTo(ServiceArticles, MaxArticles)}
    \cup {Data(Array(<<ArticleUp>>), s) : s \in SummaryPayloads}

\* Line 76 reads the clock for an article whose published field is falsy.
ReadsClock(a) == ~Truthy(a.published)

\* The instants new Date() may read while the articles are processed, one per
\* article that reads the clock (0 stands at the others): the clock does not
\* run backwards.
Clocks(items) ==
    {nows \in [1..Len(items) -> 0..MaxClock] :
        /\ \A i \in 1..Len(items) : ~ReadsClock(items[i]) => nows[i] = 0
        /\ \A i, j \in 1..Len(items) :
              (i <= j /\ ReadsClock(items[i]) /\ ReadsClock(items[j]))
                 => nows[i] <= nows[j]}

\* What the user may type into the input.
QueryInputs == {<<>>, <<" ", " ">>, <<" ", "q", " ">>}

(***************************************************************************)
(* The state after construction, lines 36-46.                              *)
(***************************************************************************)
BackendErrorMsg ==
    [t |-> "string",
     text |-> "Backend returned an error. Check the Flask console."]
CouldNotReachMsg ==
    [t |-> "string",
     text |-> "Could not reach the backend. Is python app.py running on port 5000?"]

Init ==
    /\ headline = <<>>
    /\ results = <<>>
    /\ sortBy = "time"
    /\ filterBy = "all"
    /\ isLoading = FALSE
    /\ errorMsg = Null
    /\ summary = Null
    /\ inFlight = [fetch |-> 0, text |-> 0, json |-> 0]
    /\ lastExit = "none"
    /\ lastResponse = Null
    /\ download = Null
    /\ noSubmitSinceClear = FALSE

InFlightCount == inFlight.fetch + inFlight.text + inFlight.json

view == <<sortBy, filterBy, download>>

(***************************************************************************)
(* analyzeHeadline, lines 48-113, cut at its awaits.                       *)
(***************************************************************************)
\* onChange of the input, line 218
SetHeadline(text) ==
    /\ headline' = text
    /\ UNCHANGED <<results, isLoading, errorMsg, summary, inFlight, lastExit,
                   lastResponse, view, noSubmitSinceClear>>

\* Lines 49-60: up to the await of fetch.
AnalyzeHeadline ==
    LET query == Trim(headline)
    IN  IF query = <<>>
        THEN /\ lastExit' = "ignored"
             /\ UNCHANGED <<headline, results, isLoading, errorMsg, summary,
                            inFlight, lastResponse, view, noSubmitSinceClear>>
        ELSE /\ InFlightCount < MaxInFlight
             /\ isLoading' = TRUE
             /\ errorMsg' = Null
             /\ inFlight' = [inFlight EXCEPT !.fetch = @ + 1]
             /\ noSubmitSinceClear' = FALSE
             /\ UNCHANGED <<headline, results, summary, lastExit, lastResponse, view>>

\* The button, lines 222-226: disabled while isLoading.
ClickAnalyze ==
    /\ ~isLoading
    /\ AnalyzeHeadline

\* onKeyDown of the input, line 219: e.key === "Enter" && analyzeHeadline().
KeyDown(key) ==
    IF key = "Enter" THEN AnalyzeHeadline ELSE UNCHANGED vars

\* A catch block that shows the message of the other failure path.
CatchBlockBackendMsg ==
    /\ errorMsg' = BackendErrorMsg
    /\ UNCHANGED <<results, summary>>

\* A catch block that also drops the Summary.
CatchBlockClearsSummary ==
    /\ errorMsg' = CouldNotReachMsg
    /\ summary' = Null
    /\ UNCHANGED results

\* catch, lines 105-109
CatchBlock ==
    /\ errorMsg' = CouldNotReachMsg
    /\ UNCHANGED <<results, summary>>

\* A cleanup that does not run.
FinallyBlockSkipped == UNCHANGED isLoading

\* finally, lines 110-112
FinallyBlock == isLoading' = FALSE

\* A service-failure path that drops the results.
ServiceFailureBlockClears ==
    /\ errorMsg' = BackendErrorMsg
    /\ isLoading' = FALSE
    /\ results' = <<>>
    /\ UNCHANGED summary

\* Lines 62-68, after res.text() resolved; line 66 clears the busy flag and
\* finally clears it again.
ServiceFailureBlock ==
    /\ errorMsg' = BackendErrorMsg
    /\ isLoading' = FALSE
    /\ UNCHANGED <<results, summary>>

\* Whether lines 72-93 throw on the payload: a property of null is read, or
\* map is called on a value that has none.
Throws(data) ==
    \/ data.t \in {"null", "undefined"}
    \/ /\ Truthy(data.articles)
       /\ data.articles.t # "array"
    \/ /\ Truthy(data.articles)
       /\ data.articles.t = "array"
       /\ \E i \in 1..Len(data.articles.items) :
             data.articles.items[i].t \in {"null", "undefined"}

\* data.articles || []
ArticlesOf(data) == Or(data.articles, Array(<<>>))

\* Lines 96-104
SummaryOf(data) ==
    IF Truthy(data.summary)
    THEN Counts(Coalesce(data.summary.positive, JsInt(0)),
                Coalesce(data.summary.negative, JsInt(0)),
                Coalesce(data.summary.neutral, JsInt(0)))
    ELSE Null

\* A success path that appends to the results it finds.
SuccessBlockMerges(data, nows) ==
    /\ results' = results \o MapArticles(ArticlesOf(data).items, nows)
    /\ summary' = SummaryOf(data)
    /\ UNCHANGED errorMsg

\* Lines 72-104, on a payload they do not throw on.
SuccessBlock(data, nows) ==
    /\ results' = MapArticles(ArticlesOf(data).items, nows)
    /\ summary' = SummaryOf(data)
    /\ UNCHANGED errorMsg

\* fetch rejects: catch and finally.
FetchRejected ==
    /\ inFlight.fetch > 0
    /\ inFlight' = [inFlight EXCEPT !.fetch = @ - 1]
    /\ CatchBlock
    /\ FinallyBlock
    /\ lastExit' = "transport_failure"
    /\ UNCHANGED <<headline, lastResponse, view, noSubmitSinceClear>>

\* fetch resolves with a response; line 62 reads its status.
FetchResolved(ok) ==
    /\ inFlight.fetch > 0
    /\ inFlight' =
          IF ok
          THEN [inFlight EXCEPT !.fetch = @ - 1, !.json = @ + 1]
          ELSE [inFlight EXCEPT !.fetch = @ - 1, !.text = @ + 1]
    /\ UNCHANGED <<headline, results, isLoading, errorMsg, summary, lastExit,
                   lastResponse, view, noSubmitSinceClear>>

\* res.text() resolves: lines 64-67, then finally.
TextResolved ==
    /\ inFlight.text > 0
    /\ inFlight' = [inFlight EXCEPT !.text = @ - 1]
    /\ ServiceFailureBlock
    /\ lastExit' = "service_failure"
    /\ UNCHANGED <<headline, lastResponse, view, noSubmitSinceClear>>

\* res.text() rejects: catch and finally.
TextRejected ==
    /\ inFlight.text > 0
    /\ inFlight' = [inFlight EXCEPT !.text = @ - 1]
    /\ CatchBlock
    /\ FinallyBlock
    /\ lastExit' = "transport_failure"
    /\ UNCHANGED <<headline, lastResponse, view, noSubmitSinceClear>>

\* res.json() rejects: catch and finally.
JsonRejected ==
    /\ inFlight.json > 0
    /\ inFlight' = [inFlight EXCEPT !.json = @ - 1]
    /\ CatchBlock
    /\ FinallyBlock
    /\ lastExit' = "transport_failure"
    /\ UNCHANGED <<headline, lastResponse, view, noSubmitSinceClear>>

\* res.json() resolves with data: lines 72-104, then catch if they threw, then
\* finally.
JsonResolved(data, nows) ==
    /\ inFlight.json > 0
    /\ inFlight' = [inFlight EXCEPT !.json = @ - 1]
    /\ IF Throws(data)
       THEN /\ CatchBlock
            /\ lastExit' = "transport_failure"
            /\ UNCHANGED lastResponse
       ELSE /\ SuccessBlock(data, nows)
            /\ lastExit' = "success"
            /\ lastResponse' = [t |-> "response", data |-> data, nows |-> nows]
    /\ FinallyBlock
    /\ UNCHANGED <<headline, view, noSubmitSinceClear>>

\* A clear that leaves the error message.
ClearResultsKeepsError ==
    /\ Len(results) > 0
    /\ results' = <<>>
    /\ summary' = Null
    /\ lastExit' = "cleared"
    /\ noSubmitSinceClear' = TRUE
    /\ UNCHANGED <<headline, isLoading, errorMsg, inFlight, lastResponse, view>>

\* clearResults, lines 115-119; its button is rendered while results.length > 0
\* (line 256).
ClearResults ==
    /\ Len(results) > 0
    /\ results' = <<>>
    /\ summary' = Null
    /\ errorMsg' = Null
    /\ lastExit' = "cleared"
    /\ noSubmitSinceClear' = TRUE
    /\ UNCHANGED <<headline, isLoading, inFlight, lastResponse, view>>

NowsFor(data) ==
    IF Throws(data) THEN {<<>>} ELSE Clocks(ArticlesOf(data).items)

\* What res.json() may resolve with, and the clock readings that go with it.
Responses ==
    UNION {{[data |-> data, nows |-> nows] : nows \in NowsFor(data)} :
              data \in Payloads}

Next ==
    \/ \E text \in QueryInputs : SetHeadline(text)
    \/ ClickAnalyze
    \/ \E key \in {"Enter", "q"} : KeyDown(key)
    \/ FetchRejected
    \/ \E ok \in BOOLEAN : FetchResolved(ok)
    \/ TextResolved
    \/ TextRejected
    \/ JsonRejected
    \/ \E r \in Responses : JsonResolved(r.data, r.nows)
    \/ ClearResults

Spec == Init /\ [][Next]_vars

(***************************************************************************)
(* The steps that end a call of analyzeHeadline.                           *)
(***************************************************************************)
\* A step that ends one call, and how: the call leaves inFlight and the
\* history records its exit.
ExitStep(kind) ==
    /\ InFlightCount' = InFlightCount - 1
    /\ lastExit' = kind

\* The payload was processed to the end.
SuccessExit == ExitStep("success")

\* The service answered with a non-success status and its body was read.
ServiceFailureExit == ExitStep("service_failure")

\* The try block threw: fetch, res.text() or res.json() rejected, or the
\* processing of the payload threw.
TransportFailureExit == ExitStep("transport_failure")

FailureExit == ServiceFailureExit \/ TransportFailureExit

AnyExit == SuccessExit \/ FailureExit

\* A submit attempt: the button or the Enter key.
SubmitAttempt == ClickAnalyze \/ KeyDown("Enter")

KnownSentiments == {Str(POSITIVE), Str(NEGATIVE), Str(NEUTRAL)}

(***************************************************************************)
(* C1.  While a query is in flight every further submit attempt, by the    *)
(* button or by the Enter key, is inert: at most one request is in flight  *)
(* in every reachable state.  Refuted: the Enter key calls analyzeHeadline *)
(* without reading isLoading.                                              *)
(***************************************************************************)
C1_AtMostOneRequestInFlight == InFlightCount <= 1

(***************************************************************************)
(* C2.  Every exit of analyzeHeadline (success, service-reported failure,  *)
(* transport failure) leaves the busy flag false, so that the button       *)
(* accepts a new query.                                                    *)
(***************************************************************************)
C2_BusyClearedOnEveryExit ==
    [][AnyExit => (isLoading' = FALSE /\ InFlightCount' < MaxInFlight)]_vars

C2_Witness ==
    /\ lastExit \in {"success", "service_failure", "transport_failure"}
    /\ ~isLoading
    /\ InFlightCount = 0

(***************************************************************************)
(* C3, as claimed.  When the service answers with a non-success status,    *)
(* the error state becomes the backend-error message and the canonical     *)
(* result set is what it was (the step that handles the answer leaves it   *)
(* untouched).  Refuted: the body of the answer is read                    *)
(* inside the try block, and when that read fails the catch block sets the *)
(* could-not-reach message.                                                *)
(***************************************************************************)
C3_NonSuccessSetsBackendError ==
    [][(TextResolved \/ TextRejected) =>
          (errorMsg' = BackendErrorMsg /\ results' = results)]_vars

(***************************************************************************)
(* C3, amended.  When the service answers with a non-success status and    *)
(* the body of the answer is read, the error state becomes the             *)
(* backend-error message; when reading the body fails it becomes the       *)
(* could-not-reach message; the canonical result set is what it was in     *)
(* both cases.                                                             *)
(***************************************************************************)
C3_NonSuccessBodyRead ==
    [][/\ TextResolved => (errorMsg' = BackendErrorMsg /\ results' = results)
       /\ TextRejected => (errorMsg' = CouldNotReachMsg /\ results' = results)]_vars

C3_Witness ==
    /\ lastExit = "service_failure"
    /\ errorMsg = BackendErrorMsg
    /\ results # <<>>

(***************************************************************************)
(* C4.  A transport failure (the request rejects, a body cannot be read or *)
(* parsed, the processing of the payload throws) sets the could-not-reach  *)
(* message, which is not the backend-error message, and leaves the         *)
(* canonical result set as it was.                                         *)
(***************************************************************************)
C4_TransportFailureMessage ==
    [][TransportFailureExit =>
          /\ errorMsg' = CouldNotReachMsg
          /\ errorMsg' # BackendErrorMsg
          /\ results' = results]_vars

C4_Witness ==
    /\ lastExit = "transport_failure"
    /\ errorMsg = CouldNotReachMsg
    /\ results # <<>>

(***************************************************************************)
(* C5, as claimed.  Whenever a query fails, the Summary is absent          *)
(* afterwards.  Refuted: neither failure path calls setSummary.            *)
(***************************************************************************)
C5_SummaryAbsentAfterFailure ==
    [][FailureExit => summary' = Null]_vars

(***************************************************************************)
(* C5, amended.  Whenever a query fails, by service-reported failure or by *)
(* transport failure, the Summary is afterwards what it was before: a      *)
(* Summary of an earlier successful query stays.                           *)
(***************************************************************************)
C5_SummaryKeptOnFailure ==
    [][FailureExit => summary' = summary]_vars

C5_Witness ==
    /\ lastExit \in {"service_failure", "transport_failure"}
    /\ errorMsg # Null
    /\ summary # Null

(***************************************************************************)
(* C6.  After a successful query the canonical result set is the           *)
(* normalization of the articles of that response, one record per article  *)
(* in the order of the articles and nothing else, and the Summary is the   *)
(* summary of the response with every omitted count 0, or absent when the  *)
(* response has none.                                                      *)
(***************************************************************************)
C6_SuccessReplacesWholesale ==
    [][SuccessExit =>
             LET data == lastResponse'.data
                 nows == lastResponse'.nows
                 items == IF data.articles.t = "array"
                          THEN data.articles.items ELSE <<>>
                 given == data.summary
                 count(c) == IF c.t \in {"undefined", "null"} THEN JsInt(0) ELSE c
             IN  /\ Len(results') = Len(items)
                 /\ \A i \in 1..Len(items) :
                       results'[i] = NormalizeArticle(items[i], nows[i])
                 /\ summary' =
                       IF given.t \in {"undefined", "null"} THEN Null
                       ELSE Counts(count(given.positive), count(given.negative),
                                   count(given.neutral))]_vars

C6_Witness ==
    /\ lastExit = "success"
    /\ lastResponse.data.summary = Counts(JsInt(2), Undefined, JsInt(1))
    /\ Len(results) = 1
    /\ summary = Counts(JsInt(2), JsInt(0), JsInt(1))

(***************************************************************************)
(* C7.  The clear action leaves the canonical result set empty, the        *)
(* Summary absent and the error message absent, whatever they were.        *)
(***************************************************************************)
C7_ClearResetsAll ==
    [][ClearResults => (results' = <<>> /\ summary' = Null /\ errorMsg' = Null)]_vars

C7_Witness ==
    /\ lastExit = "cleared"
    /\ results = <<>>
    /\ summary = Null
    /\ errorMsg = Null

(***************************************************************************)
(* C8.  A submit attempt with a query that is empty after trimming changes *)
(* nothing: no request is issued, and the busy flag, the error message,    *)
(* the canonical result set and the Summary stay as they were.             *)
(***************************************************************************)
C8_EmptyQueryIsNoOp ==
    [][(SubmitAttempt /\ \A i \in 1..Len(headline) : IsWhitespace(headline[i])) =>
          UNCHANGED <<inFlight, isLoading, errorMsg, results, summary>>]_vars

C8_Witness ==
    /\ lastExit = "ignored"
    /\ headline # <<>>
    /\ \A i \in 1..Len(headline) : IsWhitespace(headline[i])
    /\ isLoading
    /\ results # <<>>

(***************************************************************************)
(* C9.  Normalization yields neutral for every sentiment that is absent or *)
(* is none of positive, negative, neutral, so every record of the          *)
(* canonical result set has one of these three.  Refuted: line 75 defaults *)
(* only a falsy sentiment, an unexpected label is kept.                    *)
(***************************************************************************)
C9_SentimentAlwaysKnown ==
    \A i \in 1..Len(results) : results[i].sentiment \in KnownSentiments

(***************************************************************************)
(* C10.  The normalized timestamp is the parsed published time when the    *)
(* published field is present and parseable and the instant of processing  *)
(* otherwise, so no record has an invalid timestamp.  Refuted: line 76     *)
(* defaults only a falsy published field, text that is no date becomes an  *)
(* invalid Date.                                                           *)
(***************************************************************************)
C10_TimestampAlwaysValid ==
    \A i \in 1..Len(results) : results[i].timestamp.valid

(***************************************************************************)
(* The normalizer on its own: the articles the service may send, field by  *)
(* field, each normalized as the only article of a successful response.    *)
(***************************************************************************)
NormTitles == {Undefined, Str(<<>>), Str(<<" ">>), Str(<<"u", "p">>)}
NormSentiments ==
    {Undefined, Null, Str(<<>>), Str(POSITIVE), Str(NEGATIVE), Str(NEUTRAL),
     Str(<<"b", "u", "l", "l">>)}
NormPublished ==
    {Undefined, Str(<<>>),
     Str(<<"1", "9", "7", "0", "-", "0", "1", "-", "0", "2">>),
     Str(<<"s", "o", "o", "n">>)}
NormPolarities ==
    {Undefined, Null, Num(0 - 8120), Num(5000), Num(12345), Str(<<>>),
     Str(<<"h", "i">>), Bool(TRUE), Bool(FALSE)}
NormExplanations == {Undefined, Str(<<>>), Str(<<"w", "h", "y">>)}

NormArticles ==
    {Article(title, sentiment, published, polarity, explanation, Undefined) :
        title \in NormTitles, sentiment \in NormSentiments,
        published \in NormPublished, polarity \in NormPolarities,
        explanation \in NormExplanations}

\* A successful response with the one article a, processed at instant now.
NormalizeOne(a, now) ==
    /\ lastResponse = Null
    /\ SuccessBlock(Data(Array(<<a>>), Undefined), <<now>>)
    /\ lastExit' = "success"
    /\ lastResponse' =
          [t |-> "response", data |-> Data(Array(<<a>>), Undefined),
           nows |-> <<now>>]
    /\ UNCHANGED <<headline, isLoading, inFlight, view, noSubmitSinceClear>>

NextNorm ==
    \E a \in NormArticles :
        \E now \in (IF ReadsClock(a) THEN 0..MaxClock ELSE {0}) :
            NormalizeOne(a, now)

SpecNorm == Init /\ [][NextNorm]_vars

\* The raw articles the canonical result set was normalized from.
RawOfResults == lastResponse.data.articles.items

\* The canonical result set is the normalization of a response.
Normalized ==
    /\ lastResponse # Null
    /\ lastResponse.data.articles.t = "array"
    /\ Len(results) = Len(RawOfResults)

MaxRecords == 3      \* records of a canonical result set under projection

Filters == {"all", "positive", "negative", "neutral"}
SortKeys == {"date", "time", "sentiment"}

\* The string a filter button holds, lines 268-271.
FilterValue(f) ==
    CASE f = "positive" -> Str(POSITIVE)
      [] f = "negative" -> Str(NEGATIVE)
      [] f = "neutral" -> Str(NEUTRAL)
      [] f = "all" -> Str(<<"a", "l", "l">>)

\* A filter that keeps everything but the selected sentiment.
KeepsInverted(r, f) == f = "all" \/ r.sentiment # FilterValue(f)

\* The callback of results.filter, line 173.
Keeps(r, f) == f = "all" \/ r.sentiment = FilterValue(f)

\* results.filter(...), lines 172-174, as the indices kept.
FilterIdx(rs, f) ==
    SelectSeq([i \in 1..Len(rs) |-> i], LAMBDA i : Keeps(rs[i], f))

\* The characters of a string literal.
Chars(str) == [i \in 1..Len(str) |-> SubSeq(str, i, i)]

\* The names every object literal inherits from Object.prototype: order[name]
\* is then a function or an object, not undefined.
ObjectPrototypeKeys ==
    {Chars("constructor"), Chars("toString"), Chars("toLocaleString"),
     Chars("valueOf"), Chars("hasOwnProperty"), Chars("isPrototypeOf"),
     Chars("propertyIsEnumerable"), Chars("__proto__")}

\* order[r.sentiment || "neutral"] || 0, lines 181-188: a number, unless the
\* label names an inherited property, whose value subtracts to NaN.
RankIsNaN(r) ==
    LET label == Or(r.sentiment, Str(NEUTRAL))
    IN  label.t = "string" /\ label.v \in ObjectPrototypeKeys

Rank(r) ==
    LET label == Or(r.sentiment, Str(NEUTRAL))
    IN  CASE label = Str(POSITIVE) -> 3
          [] label = Str(NEUTRAL) -> 2
          [] label = Str(NEGATIVE) -> 1
          [] OTHER -> 0

\* The comparator of sort, lines 176-192.  getTime() of an invalid Date is
\* NaN, and sort reads a NaN result as 0.
Compare(a, b, key) ==
    IF key \in {"date", "time"}
    THEN IF a.timestamp.valid /\ b.timestamp.valid
         THEN b.timestamp.time - a.timestamp.time
         ELSE 0
    ELSE IF key = "sentiment"
    THEN IF RankIsNaN(a) \/ RankIsNaN(b) THEN 0 ELSE Rank(b) - Rank(a)
    ELSE 0

(***************************************************************************)
(* Array.prototype.sort is stable; on a comparator that is no consistent   *)
(* order (an invalid Date compares equal to everything) its result is left *)
(* to the engine.  Three engines are modelled: insertion from the right,   *)
(* the run detection with binary insertion that V8 applies to short arrays,*)
(* and the bottom-up merge sort of JavaScriptCore.                         *)
(***************************************************************************)
Engines == {"insertion", "binary", "merge"}

RECURSIVE InsertFromRight(_, _, _, _)
InsertFromRight(sorted, x, rs, key) ==
    IF sorted = <<>> \/ Compare(rs[sorted[Len(sorted)]], rs[x], key) <= 0
    THEN Append(sorted, x)
    ELSE Append(InsertFromRight(SubSeq(sorted, 1, Len(sorted) - 1), x, rs, key),
                sorted[Len(sorted)])

RECURSIVE InsertionSort(_, _, _, _)
InsertionSort(idx, n, rs, key) ==
    IF n = 0 THEN <<>>
    ELSE InsertFromRight(InsertionSort(idx, n - 1, rs, key), idx[n], rs, key)

Reverse(q) == [i \in 1..Len(q) |-> q[Len(q) + 1 - i]]

\* The length of the run that starts idx: strictly descending, or not
\* descending.
RECURSIVE RunEnd(_, _, _, _, _)
RunEnd(idx, k, descending, rs, key) ==
    IF k > Len(idx) THEN Len(idx)
    ELSE LET order == Compare(rs[idx[k]], rs[idx[k - 1]], key)
         IN  IF (descending /\ order >= 0) \/ (~descending /\ order < 0)
             THEN k - 1
             ELSE RunEnd(idx, k + 1, descending, rs, key)

RECURSIVE BinaryPosition(_, _, _, _, _, _)
BinaryPosition(sorted, pivot, left, right, rs, key) ==
    IF left >= right THEN left
    ELSE LET mid == left + ((right - left) \div 2)
         IN  IF Compare(rs[pivot], rs[sorted[mid]], key) < 0
             THEN BinaryPosition(sorted, pivot, left, mid, rs, key)
             ELSE BinaryPosition(sorted, pivot, mid + 1, right, rs, key)

RECURSIVE BinaryInsertFrom(_, _, _, _)
BinaryInsertFrom(idx, start, rs, key) ==
    IF start > Len(idx) THEN idx
    ELSE LET sorted == SubSeq(idx, 1, start - 1)
             at == BinaryPosition(sorted, idx[start], 1, start, rs, key)
             placed == SubSeq(sorted, 1, at - 1) \o <<idx[start]>>
                       \o SubSeq(sorted, at, start - 1)
                       \o SubSeq(idx, start + 1, Len(idx))
         IN  BinaryInsertFrom(placed, start + 1, rs, key)

BinarySort(idx, rs, key) ==
    IF Len(idx) < 2 THEN idx
    ELSE LET descending == Compare(rs[idx[2]], rs[idx[1]], key) < 0
             run == RunEnd(idx, 3, descending, rs, key)
             made == IF descending
                     THEN Reverse(SubSeq(idx, 1, run))
                          \o SubSeq(idx, run + 1, Len(idx))
                     ELSE idx
         IN  BinaryInsertFrom(made, run + 1, rs, key)

\* The merge of two adjacent runs: the right element goes first only when
\* it compares below the left one.
RECURSIVE MergeRuns(_, _, _, _)
MergeRuns(left, right, rs, key) ==
    IF right # <<>> /\ (left = <<>> \/ Compare(rs[right[1]], rs[left[1]], key) < 0)
    THEN <<right[1]>> \o MergeRuns(left, Tail(right), rs, key)
    ELSE IF left = <<>> THEN <<>>
    ELSE <<left[1]>> \o MergeRuns(Tail(left), right, rs, key)

Min(a, b) == IF a < b THEN a ELSE b

RECURSIVE MergePass(_, _, _, _, _)
MergePass(idx, width, start, rs, key) ==
    IF start > Len(idx) THEN <<>>
    ELSE LET leftEnd == Min(start + width - 1, Len(idx))
             rightEnd == Min(start + 2 * width - 1, Len(idx))
             left == SubSeq(idx, start, leftEnd)
             right == IF leftEnd < rightEnd
                      THEN SubSeq(idx, leftEnd + 1, rightEnd) ELSE <<>>
         IN  MergeRuns(left, right, rs, key)
             \o MergePass(idx, width, start + 2 * width, rs, key)

RECURSIVE MergeSort(_, _, _, _)
MergeSort(idx, width, rs, key) ==
    IF width >= Len(idx) THEN idx
    ELSE MergeSort(MergePass(idx, width, 1, rs, key), 2 * width, rs, key)

\* [...filteredResults].sort(...), lines 176-192, as indices of rs.
SortIdx(idx, rs, key, engine) ==
    IF engine = "insertion" THEN InsertionSort(idx, Len(idx), rs, key)
    ELSE IF engine = "binary" THEN BinarySort(idx, rs, key)
    ELSE MergeSort(idx, 1, rs, key)

\* sortedResults as indices of rs, and as records.
ProjectIdx(rs, f, key, engine) == SortIdx(FilterIdx(rs, f), rs, key, engine)

Project(rs, f, key, engine) ==
    LET idx == ProjectIdx(rs, f, key, engine)
    IN  [k \in 1..Len(idx) |-> rs[idx[k]]]

(***************************************************************************)
(* The projection is studied from every canonical result set a successful  *)
(* query can leave: the normalization of a sequence of service articles.   *)
(***************************************************************************)
\* An article published a day after ArticleUp, neutral.
ArticleLate ==
    Article(Str(<<"x">>), Str(NEUTRAL),
            Str(<<"1", "9", "7", "0", "-", "0", "1", "-", "0", "3">>),
            Undefined, Str(<<"w", "h", "y">>), Undefined)

\* An article whose title, explanation and link hold quotes and commas,
\* published on the day of ArticleUp.
ArticleQuoted ==
    Article(Str(<<"a", "\"", ",", "b">>), Str(POSITIVE),
            Str(<<"1", "9", "7", "0", "-", "0", "1", "-", "0", "2">>),
            Undefined, Str(<<"\"", "y", ",">>), Str(<<"h", ",", "q">>))

\* An article whose sentiment label names a property every object inherits.
ArticleProto ==
    Article(Str(<<"p">>), Str(Chars("toString")),
            Str(<<"1", "9", "7", "0", "-", "0", "1", "-", "0", "3">>),
            Num(0), Undefined, Undefined)

ViewArticles ==
    {ArticleUp, ArticleLate, ArticleDown, ArticleOdd, ArticleQuoted, ArticleProto}

ViewInitFrom(articles, n) ==
    \E items \in SeqsUpTo(articles, n) :
      \E nows \in Clocks(items) :
        /\ headline = <<"q">>
        /\ results = MapArticles(items, nows)
        /\ sortBy = "time"
        /\ filterBy = "all"
        /\ isLoading = FALSE
        /\ errorMsg = Null
        /\ summary = Null
        /\ inFlight = [fetch |-> 0, text |-> 0, json |-> 0]
        /\ lastExit = "success"
        /\ lastResponse = [t |-> "response",
                           data |-> Data(Array(items), Undefined),
                           nows |-> nows]
        /\ download = Null
        /\ noSubmitSinceClear = FALSE

ViewInit == ViewInitFrom(ViewArticles, MaxRecords)

\* onClick={() => setFilterBy(f)}, lines 268-271; the buttons are rendered
\* while results is not empty, line 256.
SetFilterBy(f) ==
    /\ Len(results) > 0
    /\ filterBy' = f
    /\ UNCHANGED <<headline, results, sortBy, isLoading, errorMsg, summary,
                   inFlight, lastExit, lastResponse, download, noSubmitSinceClear>>

\* A sort button that stores the sorted order in the canonical result set.
SetSortByStoresOrder(s) ==
    /\ Len(results) > 0
    /\ sortBy' = s
    /\ results' = Project(results, filterBy, s, "insertion")
    /\ UNCHANGED <<headline, filterBy, isLoading, errorMsg, summary,
                   inFlight, lastExit, lastResponse, download, noSubmitSinceClear>>

\* onClick={() => setSortBy(s)}, lines 288-291.
SetSortBy(s) ==
    /\ Len(results) > 0
    /\ sortBy' = s
    /\ UNCHANGED <<headline, results, filterBy, isLoading, errorMsg, summary,
                   inFlight, lastExit, lastResponse, download, noSubmitSinceClear>>

\* What the page lists at this render, under either engine.
sortedResults(engine) == Project(results, filterBy, sortBy, engine)
filteredResults == [k \in 1..Len(FilterIdx(results, filterBy)) |->
                       results[FilterIdx(results, filterBy)[k]]]

(***************************************************************************)
(* Export, lines 121-144.  Dates are printed as the en-US locale prints    *)
(* them in the UTC time zone; an instant of this model is a whole day, so  *)
(* its time of day is midnight.                                            *)
(***************************************************************************)
QUOTE == "\""
COMMA == ","
NEWLINE == "\n"

\* s.replace(/"/g, '""'), lines 127 and 132.
RECURSIVE DoubleQuotes(_)
DoubleQuotes(s) ==
    IF s = <<>> THEN <<>>
    ELSE (IF Head(s) = QUOTE THEN <<QUOTE, QUOTE>> ELSE <<Head(s)>>)
         \o DoubleQuotes(Tail(s))

\* `"${s.replace(/"/g, '""')}"`, lines 127 and 132.
Quoted(s) == <<QUOTE>> \o DoubleQuotes(s) \o <<QUOTE>>

YearLength(y) == IF IsLeap(y) THEN 366 ELSE 365

\* The civil date <<year, month, day>> of a count of days since 1970-01-01.
RECURSIVE YearFrom(_, _)
YearFrom(days, y) ==
    IF days < 0 THEN YearFrom(days + YearLength(y - 1), y - 1)
    ELSE IF days >= YearLength(y) THEN YearFrom(days - YearLength(y), y + 1)
    ELSE <<y, days>>

RECURSIVE MonthFrom(_, _, _)
MonthFrom(y, m, days) ==
    IF days >= DaysInMonth(y, m)
    THEN MonthFrom(y, m + 1, days - DaysInMonth(y, m))
    ELSE <<y, m, days + 1>>

CivilFromDays(days) ==
    LET yd == YearFrom(days, 1970) IN MonthFrom(yd[1], 1, yd[2])

InvalidDateText == Chars("Invalid Date")

\* Date.prototype.toLocaleDateString(), line 129.
ToLocaleDateString(d) ==
    IF ~d.valid THEN InvalidDateText
    ELSE LET c == CivilFromDays(d.time)
         IN  Digits(c[2]) \o <<"/">> \o Digits(c[3]) \o <<"/">> \o Digits(c[1])

\* Date.prototype.toLocaleTimeString(), line 130.
ToLocaleTimeString(d) ==
    IF ~d.valid THEN InvalidDateText ELSE Chars("12:00:00 AM")

\* Array.prototype.join, lines 135-136.
RECURSIVE Join(_, _)
Join(cells, sep) ==
    IF cells = <<>> THEN <<>>
    ELSE IF Len(cells) = 1 THEN cells[1]
    ELSE cells[1] \o sep \o Join(Tail(cells), sep)

HeaderRow ==
    <<Chars("Headline"), Chars("Sentiment"), Chars("Date"), Chars("Time"),
      Chars("Link"), Chars("Explanation")>>

\* The cells of one record, lines 126-133.
RowOf(r) ==
    <<Quoted(r.headline.v),
      JsString(Or(r.sentiment, Str(<<>>))),
      ToLocaleDateString(r.timestamp),
      ToLocaleTimeString(r.timestamp),
      JsString(Or(r.link, Str(<<>>))),
      Quoted(r.explanation.v)>>

\* r.headline.replace and r.explanation.replace throw a TypeError on a
\* value that is no string, lines 127 and 132.
ReplaceThrows(r) == r.headline.t # "string" \/ r.explanation.t # "string"

\* The text of the file, lines 124-136.
CsvOf(rs) ==
    Join(<<Join(HeaderRow, <<COMMA>>)>>
           \o [i \in 1..Len(rs) |-> Join(RowOf(rs[i]), <<COMMA>>)],
         <<NEWLINE>>)

\* exportResults, lines 121-144, from the button of line 349 that is
\* rendered while results is not empty.  A TypeError leaves the handler
\* before the file is made.
ExportResults ==
    /\ Len(results) > 0
    /\ IF \E i \in 1..Len(results) : ReplaceThrows(results[i])
       THEN /\ lastExit' = "export_threw"
            /\ UNCHANGED download
       ELSE /\ lastExit' = "exported"
            /\ download' = Str(CsvOf(results))
    /\ UNCHANGED <<headline, results, sortBy, filterBy, isLoading, errorMsg,
                   summary, inFlight, lastResponse, noSubmitSinceClear>>

NextView ==
    \/ \E f \in Filters : SetFilterBy(f)
    \/ \E s \in SortKeys : SetSortBy(s)
    \/ ExportResults

SpecView == ViewInit /\ [][NextView]_vars

\* Longer canonical result sets, of fewer kinds of article: the sort is
\* applied to up to MaxSorted records.
MaxSorted == 5
SortArticles == {ArticleUp, ArticleLate, ArticleOdd}
SortInit == ViewInitFrom(SortArticles, MaxSorted)
SpecSort == SortInit /\ [][NextView]_vars

(***************************************************************************)
(* A CSV reader that respects double-quote quoting: a comma or a line      *)
(* break separates only outside quotes, that is after an even number of    *)
(* quote characters; a quoted cell loses its enclosing quotes and has its  *)
(* doubled quotes read back as one.                                        *)
(***************************************************************************)
OutsideQuotes(text, i) ==
    Cardinality({j \in 1..(i - 1) : text[j] = QUOTE}) % 2 = 0

Cuts(text, sep) ==
    {i \in 1..Len(text) : text[i] = sep /\ OutsideQuotes(text, i)}

\* The pieces of text between the positions of cuts.
SplitAt(text, cuts) ==
    LET n == Cardinality(cuts)
        pos(k) == CHOOSE i \in cuts : Cardinality({j \in cuts : j < i}) = k - 1
        from(k) == IF k = 1 THEN 1 ELSE pos(k - 1) + 1
        to(k) == IF k = n + 1 THEN Len(text) ELSE pos(k) - 1
    IN  [k \in 1..(n + 1) |->
           IF from(k) > to(k) THEN <<>> ELSE SubSeq(text, from(k), to(k))]

RECURSIVE SingleQuotes(_)
SingleQuotes(s) ==
    IF s = <<>> THEN <<>>
    ELSE IF Len(s) >= 2 /\ s[1] = QUOTE /\ s[2] = QUOTE
         THEN <<QUOTE>> \o SingleQuotes(SubSeq(s, 3, Len(s)))
         ELSE <<s[1]>> \o SingleQuotes(Tail(s))

Unquote(cell) ==
    IF Len(cell) >= 2 /\ cell[1] = QUOTE /\ cell[Len(cell)] = QUOTE
    THEN SingleQuotes(SubSeq(cell, 2, Len(cell) - 1))
    ELSE cell

CsvParseRow(row) ==
    LET cells == SplitAt(row, Cuts(row, COMMA))
    IN  [k \in 1..Len(cells) |-> Unquote(cells[k])]

CsvParse(text) ==
    LET rows == SplitAt(text, Cuts(text, NEWLINE))
    IN  [k \in 1..Len(rows) |-> CsvParseRow(rows[k])]

(***************************************************************************)
(* Claims on the View Projection and the export.                           *)
(***************************************************************************)
Range(q) == {q[i] : i \in 1..Len(q)}
Increasing(q) == \A i, j \in 1..Len(q) : i < j => q[i] < q[j]
Injective(q) == \A i, j \in 1..Len(q) : i # j => q[i] # q[j]

\* C12: for every filter, the filtered sequence under "all" is the whole
\* canonical result set, and under positive, negative or neutral it holds
\* exactly the records whose sentiment equals the filter value, each once and
\* in canonical order: every matching record is kept, every other record is
\* dropped, none is added or duplicated.
C12_FilterExact ==
    /\ \A f \in Filters :
         LET idx == FilterIdx(results, f)
         IN  /\ Range(idx) \subseteq 1..Len(results)
             /\ Increasing(idx)
             /\ f = "all" => idx = [i \in 1..Len(results) |-> i]
             /\ f # "all" =>
                  \A i \in 1..Len(results) :
                     i \in Range(idx) <=> results[i].sentiment = FilterValue(f)
    /\ LET idx == FilterIdx(results, filterBy)
       IN  /\ Len(filteredResults) = Len(idx)
           /\ \A k \in 1..Len(idx) : filteredResults[k] = results[idx[k]]

C12_Witness ==
    /\ filterBy = "positive"
    /\ Len(results) = 3
    /\ results[1].sentiment = Str(NEGATIVE)
    /\ results[2].sentiment = Str(POSITIVE)
    /\ results[3].sentiment = Str(<<"b", "u", "l", "l">>)
    /\ filteredResults = <<results[2]>>

\* C13: under sort key date and under sort key time the projection is the
\* same sequence: the filtered records by timestamp descending (the most
\* recent first), records of equal timestamp in their relative order of the
\* canonical set.
C13_DateTimeDescending ==
    \A engine \in Engines : \A f \in Filters :
       LET byDate == ProjectIdx(results, f, "date", engine)
           byTime == ProjectIdx(results, f, "time", engine)
           at(k) == results[byTime[k]].timestamp
       IN  /\ byDate = byTime
           /\ Range(byTime) = Range(FilterIdx(results, f))
           /\ \A i, j \in 1..Len(byTime) :
                (i < j /\ at(i).valid /\ at(j).valid) =>
                   /\ at(i).time >= at(j).time
                   /\ at(i).time = at(j).time => byTime[i] < byTime[j]

\* The rank the page gives a sentiment: positive first, neutral or absent
\* next, negative last; 0 marks a label that has no rank.
ClassOf(r) ==
    IF r.sentiment = Str(POSITIVE) THEN 3
    ELSE IF r.sentiment \in {Str(NEUTRAL), Undefined, Null, Str(<<>>)} THEN 2
    ELSE IF r.sentiment = Str(NEGATIVE) THEN 1
    ELSE 0

SentimentOrdered(rs, f, engine) ==
    LET idx == ProjectIdx(rs, f, "sentiment", engine)
        class(k) == ClassOf(rs[idx[k]])
    IN  /\ Range(idx) = Range(FilterIdx(rs, f))
        /\ Len(idx) = Len(FilterIdx(rs, f))
        /\ \A i, j \in 1..Len(idx) :
             i < j =>
               /\ (class(i) > 0 /\ class(j) > 0) => class(i) >= class(j)
               /\ class(i) = class(j) => idx[i] < idx[j]

\* Records as the comparator may meet them: a sentiment that is absent.
RecordOf(sentiment) ==
    [headline |-> Str(<<"x">>), sentiment |-> sentiment, timestamp |-> DateAt(0),
     explanation |-> Str(<<>>), link |-> Undefined]

AbsentSentimentRankedNeutral ==
    \A rs \in SeqsUpTo({RecordOf(Undefined), RecordOf(Null), RecordOf(Str(POSITIVE)),
                        RecordOf(Str(NEUTRAL)), RecordOf(Str(NEGATIVE))},
                       MaxRecords) :
       \A engine \in Engines : SentimentOrdered(rs, "all", engine)

\* C14: under sort key sentiment the projection never lists a negative, a
\* neutral or an absent-sentiment record before a positive one, nor a
\* negative record before a neutral or absent-sentiment one; records of
\* equal rank keep their relative order of the canonical set; a record
\* with absent sentiment is ranked as neutral and is listed as it is stored.
C14_SentimentRankOrder ==
    /\ \A engine \in Engines : \A f \in Filters :
          SentimentOrdered(results, f, engine)
    /\ AbsentSentimentRankedNeutral

\* C15: the projection is idempotent: for every record sequence R the page
\* can hold, every filter f and every sort key s,
\* project(project(R, f, s), f, s) = project(R, f, s).
C15_ProjectionIdempotent ==
    \A engine \in Engines : \A f \in Filters : \A s \in SortKeys :
       LET once == Project(results, f, s, engine)
       IN  Project(once, f, s, engine) = once

\* C16: for a non-empty canonical result set the export holds the header row
\* and then one row per canonical record, in canonical order, whatever the
\* filter and the sort key selected; for an empty canonical set the export
\* produces nothing.
C16_ExportAllRecords ==
    /\ [](results = <<>> => download = Null)
    /\ [][ExportResults =>
            /\ lastExit' = "exported"
            /\ download' # Null
            /\ LET rows == CsvParse(download'.v)
               IN  /\ Len(rows) = Len(results) + 1
                   /\ rows[1] = HeaderRow
                   /\ \A i \in 1..Len(results) :
                        rows[i + 1][1] = results[i].headline.v]_vars

\* C17: for every record, exporting it and reading the row back with a CSV
\* reader that respects double-quote quoting gives the original headline in
\* the Headline column and the original explanation in the Explanation
\* column, whatever the strings hold (quotes and commas included).
C17_CsvRoundTrip ==
    \A i \in 1..Len(results) :
       LET r == results[i]
       IN  /\ ~ReplaceThrows(r)
           /\ LET cells == CsvParseRow(Join(RowOf(r), <<COMMA>>))
              IN  /\ Len(cells) = Len(HeaderRow)
                  /\ cells[1] = r.headline.v
                  /\ cells[6] = r.explanation.v

\* C18: in every reachable state every record of the canonical result set
\* has a headline that is a string and is not empty after trimming, whatever
\* articles the service returned.
C18_HeadlinePresent ==
    \A i \in 1..Len(results) :
       /\ results[i].headline.t = "string"
       /\ Trim(results[i].headline.v) # <<>>

\* C19: changing the filter or the sort selection, and computing the
\* projection, leave the canonical result set, the summary, the error
\* message and the busy flag as they are; the projection is always a
\* reordering of a sub-collection of the canonical set.
C19_ProjectionPure ==
    /\ [](\A engine \in Engines :
            LET idx == ProjectIdx(results, filterBy, sortBy, engine)
            IN  /\ Range(idx) \subseteq 1..Len(results)
                /\ Injective(idx)
                /\ Len(sortedResults(engine)) = Len(idx)
                /\ \A k \in 1..Len(idx) :
                      sortedResults(engine)[k] = results[idx[k]])
    /\ [][(filterBy' # filterBy \/ sortBy' # sortBy) =>
            UNCHANGED <<results, summary, errorMsg, isLoading>>]_vars

C19_Witness ==
    /\ filterBy = "negative"
    /\ sortBy = "date"
    /\ Len(results) = 3
    /\ results[1].timestamp = DateAt(0)
    /\ results[2].sentiment = Str(POSITIVE)
    /\ results[3].timestamp = DateAt(1)
    /\ \A engine \in Engines :
          sortedResults(engine) = <<results[3], results[1]>>

\* C20: in every reachable state the busy flag is true exactly when a query
\* is in flight: never false while a request awaits its response, never
\* true when no request is outstanding.
C20_BusyIffInFlight == isLoading <=> InFlightCount > 0

\* C21: once clearResults has run, the canonical result set stays empty and
\* the summary stays absent until a query submitted after the clear
\* succeeds; the response to a query that was in flight when clear ran does
\* not bring them back.
C21_ClearedUntilNewQuery ==
    noSubmitSinceClear => (results = <<>> /\ summary = Null)

====
